---- MODULE Spec2Model ----
(***************************************************************************)
(* A model of cw_farmer_v5.py: the shared token registry (SharedState),    *)
(* the moment scheduler (MomentsManager), the account worker               *)
(* (AccountFarmer) and the fleet controller (FarmerController, main).      *)
(*                                                                         *)
(* The program runs on one asyncio event loop.  Code between two           *)
(* suspension points (asyncio.sleep, run_in_executor) runs without         *)
(* interleaving, so one action of the model is one such segment.  The      *)
(* HTTP calls of HttpClient are blocking calls (urllib), not suspension    *)
(* points.                                                                 *)
(***************************************************************************)
EXTENDS Integers, Sequences, FiniteSets, TLC

(***************************************************************************)
(* Bounds of the model.                                                    *)
(***************************************************************************)
\* The valid ID range is TOKEN_ID_MIN .. TOKEN_ID_MAX; the source has 1000
\* IDs (25..1024), the model keeps the lower end and NumTokens of them.
NumTokens == 3
\* The clock counts whole hours and stops at MaxClock.
MaxClock == 26
\* The fleet: one worker per API key.
NumWorkers == 2
\* The fleet a status snapshot is taken of has up to NumAccounts accounts.
NumAccounts == 3
\* The LLM's answers have up to MaxWords words.
MaxWords == 4
\* mine() calls made directly, by the one worker of SpecMine
MaxMines == 2

(***************************************************************************)
(* Program constants.                                                      *)
(***************************************************************************)
MAX_MOMENTS == 5
MOMENT_COOLDOWN_HOURS == 5
TRUST_TARGET == 65
TOKEN_ID_MIN == 25
TOKEN_ID_MAX == TOKEN_ID_MIN + NumTokens - 1

\* Python's None where an integer is expected (a token ID, a timestamp).
None == 0 - 1

TokenRange == TOKEN_ID_MIN .. TOKEN_ID_MAX
Workers == 1 .. NumWorkers

VARIABLES
    tried_tokens,   \* SharedState.tried_tokens: set of IDs known taken
    free_tokens,    \* SharedState.free_tokens: list of IDs known free
    ever_taken,     \* history: every ID ever passed to mark_taken
    free_recency,   \* history: the IDs now in free_tokens, newest insertion first
    last_call,      \* history: the last registry call made directly, and its result
    now,            \* datetime.now(), in whole hours
    posted,         \* posted[w]: worker w's MomentsManager.posted
    last_post,      \* last_post[w]: its MomentsManager.last_post (None or an hour)
    moment_call,    \* history: the last MomentsManager.post() call and what it saw
    moment_states,  \* SharedState.moment_states: per account, <<>> or <<saved scheduler>>
    status,         \* status[w]: AccountStats.status
    trust_score,    \* trust_score[w]: AccountStats.trust_score
    running,        \* running[w]: AccountFarmer.running
    pc,             \* pc[w]: where worker w's task is suspended
    ctf,            \* ctf[w]: run()'s local consecutive_token_failures
    chal,           \* chal[w]: handle_challenge's token_id and depth while solving
    result,         \* result[w]: run()'s local result (this iteration's mining outcome)
    sleep_dur,      \* sleep_dur[w]: the argument of the asyncio.sleep w is in
    farmers,        \* FarmerController.farmers: the accounts of the fleet
    main_pc,        \* where main() is
    save_pc,        \* where the save_loop task is
    cancel_req,     \* tasks with a CancelledError still to be thrown into them
    interrupted,    \* the process interrupt has arrived
    state_file,     \* STATE_FILE: <<>> (no file) or <<what the file holds>>
    stats_file,     \* STATS_FILE: <<>> or <<snapshot>>
    report,         \* print_report's output: <<>> or <<per-account trust>>
    idle_save,      \* history: save_loop saved although no worker was left in its loop
    stats,          \* stats[w]: AccountStats' counters and cached balance
    last_mine,      \* history: the last mine() call made directly, and what it met
    solver_in,      \* the arguments of a solve_challenge call, and what the LLM answers
    solver_out,     \* history: what that call did and returned
    load_call,      \* history: how the last SharedState.load() went
    snapshot,       \* <<>> or <<what the last get_stats() made directly returned>>
    taken_streak    \* history: the token_taken results run() got in a row, up to now

regvars == <<tried_tokens, free_tokens, ever_taken, free_recency, last_call>>
momvars == <<now, posted, last_post, moment_call>>
workervars == <<moment_states, status, trust_score, running, pc, ctf, chal,
                result, sleep_dur>>
ctlvars == <<farmers, main_pc, save_pc, cancel_req, interrupted, state_file, stats_file,
             report, idle_save>>
unitvars == <<stats, last_mine, solver_in, solver_out, load_call, snapshot,
             taken_streak>>
vars == <<regvars, momvars, workervars, ctlvars, unitvars>>

(***************************************************************************)
(* Sequences as Python lists.                                              *)
(***************************************************************************)
Range(s) == {s[i] : i \in 1 .. Len(s)}

\* list.remove(x): removes the first occurrence of x only.
RECURSIVE ListRemove(_, _)
ListRemove(s, x) ==
    IF s = <<>> THEN <<>>
    ELSE IF Head(s) = x THEN Tail(s)
    ELSE <<Head(s)>> \o ListRemove(Tail(s), x)

\* list.insert(0, x)
ListInsertFront(s, x) == <<x>> \o s

(***************************************************************************)
(* SharedState: the token registry.  Each operator maps the registry       *)
(* before the call to the registry after it.                               *)
(***************************************************************************)
Registry(tried, free) == [tried |-> tried, free |-> free]

\* mark_taken that leaves the ID in the free list: what C22 rules out.
mark_taken_keeps_free(reg, token_id) ==
    Registry(reg.tried \cup {token_id}, reg.free)

mark_taken(reg, token_id) ==
    Registry(reg.tried \cup {token_id},
             IF token_id \in Range(reg.free)
             THEN ListRemove(reg.free, token_id)
             ELSE reg.free)

\* mark_free that moves an ID it already holds to the front: what C17
\* rules out.
mark_free_to_front(reg, token_id) ==
    IF token_id \in reg.tried THEN reg
    ELSE Registry(reg.tried, ListInsertFront(ListRemove(reg.free, token_id), token_id))

\* mark_free without the look at tried_tokens: what C1 rules out.
mark_free_unguarded(reg, token_id) ==
    IF token_id \notin Range(reg.free)
    THEN Registry(reg.tried, ListInsertFront(reg.free, token_id))
    ELSE reg

\* mark_free that takes a success for proof that the ID is free and lifts
\* it out of tried_tokens: what C31 rules out.
mark_free_overrides_taken(reg, token_id) ==
    IF token_id \notin Range(reg.free)
    THEN Registry(reg.tried \ {token_id}, ListInsertFront(reg.free, token_id))
    ELSE Registry(reg.tried \ {token_id}, reg.free)

\* mark_free without the look at free_tokens: what C32 rules out.
mark_free_again(reg, token_id) ==
    IF token_id \notin reg.tried
    THEN Registry(reg.tried, ListInsertFront(reg.free, token_id))
    ELSE reg

mark_free(reg, token_id) ==
    IF token_id \notin reg.tried /\ token_id \notin Range(reg.free)
    THEN Registry(reg.tried, ListInsertFront(reg.free, token_id))
    ELSE reg

\* get_next_token serving the back of the free list: what C2 rules out.
get_next_token_oldest(reg) ==
    IF reg.free # <<>>
    THEN {reg.free[Len(reg.free)]}
    ELSE LET available == TokenRange \ reg.tried
         IN  IF available = {} THEN {None} ELSE available

\* get_next_token that draws from the whole range, the taken IDs included:
\* what C28 rules out.
get_next_token_whole_range(reg) ==
    IF reg.free # <<>> THEN {reg.free[1]} ELSE TokenRange

\* get_next_token: the set of values the call may return (random.choice).
get_next_token(reg) ==
    IF reg.free # <<>>
    THEN {reg.free[1]}
    ELSE LET available == TokenRange \ reg.tried
         IN  IF available = {} THEN {None} ELSE available

\* The registry held by the variables.
Reg == Registry(tried_tokens, free_tokens)

\* History of insertions into free_tokens, kept beside the list: an ID that
\* enters the list is the newest, an ID that leaves it is forgotten.
Recency(old, before, after) ==
    LET entered == Range(after) \ Range(before)
        kept == SelectSeq(old, LAMBDA x : x \in Range(after))
    IN  IF entered = {} THEN kept
        ELSE <<CHOOSE x \in entered : TRUE>> \o kept

SetRegistry(reg) ==
    /\ tried_tokens' = reg.tried
    /\ free_tokens' = reg.free
    /\ free_recency' = Recency(free_recency, free_tokens, reg.free)

NoCall == [op |-> "none", arg |-> None, ret |-> None, was_free |-> FALSE]

(***************************************************************************)
(* MomentsManager.                                                         *)
(***************************************************************************)
\* can_post without the quota test: what C10 rules out.
can_post_no_quota(n_posted, last, clock) ==
    IF last # None /\ clock - last < MOMENT_COOLDOWN_HOURS THEN FALSE
    ELSE TRUE

\* can_post without the cooldown test: what C11 rules out.
can_post_no_cooldown(n_posted, last, clock) ==
    IF n_posted >= MAX_MOMENTS THEN FALSE
    ELSE TRUE

\* can_post: elapsed < timedelta(hours=MOMENT_COOLDOWN_HOURS) blocks the post.
can_post(n_posted, last, clock) ==
    IF n_posted >= MAX_MOMENTS THEN FALSE
    ELSE IF last # None /\ clock - last < MOMENT_COOLDOWN_HOURS THEN FALSE
    ELSE TRUE

\* post(): the scheduler after the call, given the Gateway's success flag.
Scheduler(n_posted, last) == [posted |-> n_posted, last_post |-> last]

moments_post(sch, clock, success) ==
    IF ~can_post(sch.posted, sch.last_post, clock) THEN sch
    ELSE IF success THEN Scheduler(sch.posted + 1, clock)
    ELSE sch

\* What post() returns under "success".
moments_post_ok(sch, clock, success) ==
    can_post(sch.posted, sch.last_post, clock) /\ success

SchedulerOf(w) == Scheduler(posted[w], last_post[w])

NoMomentCall == [seq |-> 0, w |-> 0, can |-> FALSE, success |-> FALSE]

(***************************************************************************)
(* The Gateway's answers, as far as the code looks at them.                *)
(***************************************************************************)
\* An inscription response, as HttpClient hands it to mine() and to
\* handle_challenge(): the fields they read.  status is the dictionary's
\* "status" entry (0: none); hash tells whether a non-empty hash is there;
\* cw_earned, cw_balance, trust and retry_after are None when the field is
\* absent; challenge is "none" (absent), "ok" (has id and prompt) or "bad"
\* (lacks one of them); malformed: the body is JSON but no object, so that
\* .get() raises.
Response(http, id_status, error, hash, cw_earned, cw_balance, trust, challenge, retry_after, malformed) ==
    [status |-> http, id_status |-> id_status, error |-> error, hash |-> hash,
     cw_earned |-> cw_earned, cw_balance |-> cw_balance,
     trust |-> trust, challenge |-> challenge, retry_after |-> retry_after,
     malformed |-> malformed]

Plain == Response(0, "", "", FALSE, None, None, None, "none", None, FALSE)

\* `result.get("hash") or result.get("cw_earned")`: a number counts when it
\* is not 0.
Earned(r) == r.hash \/ (r.cw_earned # None /\ r.cw_earned # 0)

TrustValues == {TRUST_TARGET - 1, TRUST_TARGET}

\* One response of every kind the code tells apart, and more than one
\* where a field's value matters.
AllResponses ==
    {[Plain EXCEPT !.status = 503],
     [Plain EXCEPT !.id_status = "taken"],
     [Plain EXCEPT !.error = "CHALLENGE_USED"],
     [Plain EXCEPT !.error = "OTHER"],
     [Plain EXCEPT !.malformed = TRUE]}
    \cup {[Plain EXCEPT !.error = "CHALLENGE_REQUIRED", !.challenge = c] :
             c \in {"ok", "bad"}}
    \cup {[Plain EXCEPT !.error = "CHALLENGE_FAILED", !.challenge = c] :
             c \in {"none", "ok", "bad"}}
    \cup {[Plain EXCEPT !.hash = TRUE, !.trust = t] : t \in TrustValues \cup {None}}
    \cup {[Plain EXCEPT !.error = "RATE_LIMITED", !.retry_after = ra] :
             ra \in {None, 30}}

\* What the fleet's Gateway may answer: to an inscription request, to an
\* answer submission, to the balance request (None: no success flag) and to
\* a moment post.
Environment(insc, ans, bal, mom) == [insc |-> insc, ans |-> ans, bal |-> bal, mom |-> mom]

\* The argument of an asyncio.sleep: any number of lo .. hi (a constant, or
\* a constant plus random.randint).  The model keeps the range, not the draw.
Span(lo, hi) == [lo |-> lo, hi |-> hi]
NoSleep == Span(0, 0)

(***************************************************************************)
(* HttpClient._execute: from the HTTP reply to the dictionary returned.    *)
(***************************************************************************)
\* An HTTP reply: its status code (0: no reply at all, the connection failed
\* or timed out) and its body: "empty", "garbage" (not JSON) or "json", and
\* then the value it holds.
Reply(code, kind, json) == [code |-> code, kind |-> kind, json |-> json]

\* opener.open raises HTTPError for the codes urllib does not accept.
IsHTTPError(code) == code >= 400

\* _execute: a parsed body is returned as it is, whatever the status code;
\* the code is put under "status" only where the body of an HTTPError is
\* empty or does not parse.  str(e) is a text none of the callers tests for.
execute(reply) ==
    IF reply.code # 0 /\ reply.kind = "json" THEN reply.json
    ELSE IF IsHTTPError(reply.code)
    THEN [Plain EXCEPT !.error = "OTHER", !.status = reply.code]
    ELSE [Plain EXCEPT !.error = "OTHER"]

(***************************************************************************)
(* AccountStats: the counters and the cached balance.                      *)
(***************************************************************************)
NoStats ==
    [tokens_taken |-> 0, total_mines |-> 0, challenges_passed |-> 0,
     challenges_failed |-> 0, cw_balance |-> 0]

\* A taken ID counted as a mine as well: what C13 rules out.
stats_taken_as_mine(st) ==
    [st EXCEPT !.tokens_taken = @ + 1, !.total_mines = @ + 1]

\* mine() line 567
stats_taken(st) == [st EXCEPT !.tokens_taken = @ + 1]

\* mine() lines 577-578: result.get("cw_balance", self.stats.cw_balance)
stats_mined(st, r) ==
    [st EXCEPT !.total_mines = @ + 1,
               !.cw_balance = IF r.cw_balance = None THEN @ ELSE r.cw_balance]

\* handle_challenge() lines 636-638
stats_passed(st, r) == [stats_mined(st, r) EXCEPT !.challenges_passed = @ + 1]

\* handle_challenge() line 645
stats_failed(st) == [st EXCEPT !.challenges_failed = @ + 1]

(***************************************************************************)
(* AccountFarmer.  A world is what one segment of a worker's code reads    *)
(* and writes; each operator gives the set of worlds the segment may end   *)
(* in, at its next suspension point.                                       *)
(***************************************************************************)
NoChallenge == [token_id |-> None, depth |-> 0]

Result(error, success, cooldown, retry_after) ==
    [error |-> error, success |-> success, challenge_cooldown |-> cooldown,
     retry_after |-> retry_after]
Failure(error) == Result(error, FALSE, FALSE, None)
NoResult == Failure("")

Finished == {"done", "cancelled"}

Is5xx(r) == r.status \in {500, 502, 503, 504}

\* The task suspends in an asyncio.sleep or in the await of the solver.
Suspend(wd, at, lo, hi) == {[wd EXCEPT !.pc = at, !.dur = Span(lo, hi)]}

\* run() line 750: the loop is left and run() returns.
LeaveLoop(wd) == [wd EXCEPT !.pc = "done", !.dur = NoSleep]

\* An exception that ends run(): what C8 rules out.
run_on_exception_fatal(wd) ==
    {LeaveLoop([wd EXCEPT !.result = Failure("exception")])}

\* run() lines 746-748: an exception inside the iteration.
run_on_exception(wd) ==
    Suspend([wd EXCEPT !.result = Failure("exception")], "sleep_error", 60, 60)

\* run() lines 720-742: success, the target check, the sleep before the
\* next cycle.
run_after_backoff(wd) ==
    LET w1 == IF wd.result.success THEN [wd EXCEPT !.ctf = 0] ELSE wd
    IN  IF w1.trust >= TRUST_TARGET
        THEN {LeaveLoop([w1 EXCEPT !.status = "completed"])}
        ELSE IF w1.result.challenge_cooldown
        THEN Suspend(w1, "sleep_cooldown", 1860, 1920)
        ELSE Suspend(w1, "sleep_delay", 120, 200)

\* run_after_taken without the jitter of the rate-limit sleep: what C24
\* rules out.
run_after_taken_no_jitter(wd) ==
    LET retry == IF wd.result.retry_after = None THEN 60 ELSE wd.result.retry_after
    IN  IF wd.result.error \in {"rate_limited", "server_error"}
        THEN Suspend(wd, "sleep_server", retry, retry)
        ELSE run_after_backoff(wd)

\* run() lines 708-718: rate_limited and server_error sleep and continue.
run_after_taken(wd) ==
    LET retry == IF wd.result.retry_after = None THEN 60 ELSE wd.result.retry_after
    IN  IF wd.result.error = "rate_limited"
        THEN Suspend(wd, "sleep_rate", retry + 10, retry + 30)
        ELSE IF wd.result.error = "server_error"
        THEN Suspend(wd, "sleep_server", retry, retry)
        ELSE run_after_backoff(wd)

\* run() lines 698-706: the result of mine() arrives.
run_on_result(wd, r) ==
    LET w0 == [wd EXCEPT !.result = r]
        w1 == [w0 EXCEPT !.ctf = @ + 1]
    IN  IF r.error = "token_taken"
        THEN IF w1.ctf > 10
             THEN Suspend(w1, "sleep_taken", 60, 120)
             ELSE run_after_taken(w1)
        ELSE run_after_taken(w0)

\* The depth test off by one: what C9 rules out.
may_recurse_once_more(depth) == depth <= 3

\* handle_challenge line 652: may a replacement challenge be followed?
may_recurse(depth) == depth < 3

\* handle_challenge without the test of line 607: what C30 rules out.
challenge_begin_unchecked(wd, token_id, challenge, depth) ==
    {[wd EXCEPT !.pc = "solving", !.dur = NoSleep,
                !.chal = [token_id |-> token_id, depth |-> depth]]}

\* handle_challenge lines 603-616: up to the await of the solver.
challenge_begin(wd, token_id, challenge, depth) ==
    IF challenge # "ok"
    THEN run_on_result(wd, Failure("invalid_challenge"))
    ELSE {[wd EXCEPT !.pc = "solving", !.dur = NoSleep,
                     !.chal = [token_id |-> token_id, depth |-> depth]]}

\* handle_challenge lines 618-662: the answer is submitted, r comes back.
challenge_answer(wd, r) ==
    LET c == wd.chal
        w0 == [wd EXCEPT !.chal = NoChallenge]
        w1 == [w0 EXCEPT !.reg = mark_free(@, c.token_id),
                         !.stats = stats_passed(@, r),
                         !.trust = IF r.trust = None THEN @ ELSE r.trust]
        w2 == [w0 EXCEPT !.stats = stats_failed(@)]
    IN  IF r.malformed THEN run_on_exception(w0)
        ELSE IF Is5xx(r) THEN run_on_result(w0, Result("server_error", FALSE, FALSE, 60))
        ELSE IF Earned(r) THEN run_on_result(w1, Result("", TRUE, TRUE, None))
        ELSE IF r.error = "CHALLENGE_FAILED"
        THEN IF r.challenge = "ok" /\ may_recurse(c.depth)
             THEN challenge_begin(w2, c.token_id, r.challenge, c.depth + 1)
             ELSE run_on_result(w2, Failure("challenge_failed"))
        ELSE IF r.error = "CHALLENGE_USED"
        THEN run_on_result(w0, Failure("challenge_used"))
        ELSE run_on_result(w0, Failure("unknown"))

\* mine() lines 555-598: the response r to the inscription of token_id.
mine_response(wd, token_id, r) ==
    LET taken == [wd EXCEPT !.reg = mark_taken(@, token_id),
                            !.ever = @ \cup {token_id},
                            !.stats = stats_taken(@)]
        mined == [wd EXCEPT !.reg = mark_free(@, token_id),
                            !.stats = stats_mined(@, r),
                            !.trust = IF r.trust = None THEN @ ELSE r.trust]
    IN  IF r.malformed THEN run_on_exception(wd)
        ELSE IF Is5xx(r) THEN run_on_result(wd, Result("server_error", FALSE, FALSE, 60))
        ELSE IF r.id_status = "taken" THEN run_on_result(taken, Failure("token_taken"))
        ELSE IF r.error = "CHALLENGE_REQUIRED"
        THEN challenge_begin(wd, token_id, r.challenge, 0)
        ELSE IF Earned(r) THEN run_on_result(mined, Result("", TRUE, FALSE, None))
        ELSE IF r.error = "RATE_LIMITED"
        THEN run_on_result(wd, Result("rate_limited", FALSE, FALSE,
                                      IF r.retry_after = None THEN 60 ELSE r.retry_after))
        ELSE run_on_result(wd, Failure("unknown"))

\* mine() that sends its request with no candidate and takes the answer for
\* the candidate's: what C29 rules out.
mine_token_unguarded(wd, token_id, responses) ==
    UNION {mine_response(wd, token_id, r) : r \in responses}

\* mine() lines 550-555: with the candidate token_id, the request and any
\* of the responses.
mine_token(wd, token_id, responses) ==
    IF token_id = None
    THEN run_on_result(wd, Failure("all_tokens_taken"))
    ELSE UNION {mine_response(wd, token_id, r) : r \in responses}

\* mine() lines 548-555: the candidate, then the request.
mine(wd, env) ==
    UNION {mine_token(wd, token_id, env.insc) : token_id \in get_next_token(wd.reg)}

\* SharedState.save_moment_state
save_moment_state(mst, account_id, sch) == [mst EXCEPT ![account_id] = <<sch>>]

\* post_moment() and the sleep(3) after it; m is the Gateway's answer:
\* "ok" (success flag), "fail" (none) or "bad" (malformed).
post_moment(wd, m, clock) ==
    LET ok == moments_post_ok(wd.sch, clock, m = "ok")
        sch == moments_post(wd.sch, clock, m = "ok")
        w1 == [wd EXCEPT !.sch = sch,
                         !.mst = IF ok THEN save_moment_state(@, wd.w, sch) ELSE @]
    IN  IF m = "bad" THEN run_on_exception(wd)
        ELSE Suspend(w1, "sleep_moment", 3, 3)

\* run() lines 688-698: the loop test, the moment, the mining cycle.  The
\* result of the iteration before is not read again: the new iteration has
\* no result until its mine() returns.
run_iteration(wd, env, clock) ==
    LET w0 == [wd EXCEPT !.result = NoResult]
    IN  IF ~(wd.running /\ wd.trust < TRUST_TARGET) THEN {LeaveLoop(wd)}
        ELSE IF wd.sch.posted < MAX_MOMENTS
                /\ can_post(wd.sch.posted, wd.sch.last_post, clock)
        THEN UNION {post_moment(w0, m, clock) : m \in env.mom}
        ELSE mine(w0, env)

\* run() lines 666-686: the start, with the balance response bal (None: no
\* success flag, else the trust score it carries).
run_start(wd, env, bal, clock) ==
    LET m == wd.mst[wd.w]
        restored == IF m = <<>> THEN wd.sch
                    ELSE Scheduler(m[1].posted,
                                   IF m[1].last_post # None THEN m[1].last_post
                                   ELSE wd.sch.last_post)
        w1 == [wd EXCEPT !.running = TRUE, !.status = "farming", !.sch = restored,
                         !.trust = IF bal = None THEN @ ELSE bal, !.ctf = 0]
    IN  run_iteration(w1, env, clock)

\* A sleep ends, or the solver returns.
wake(wd, env, clock) ==
    CASE wd.pc = "stagger" -> UNION {run_start(wd, env, bal, clock) : bal \in env.bal}
      [] wd.pc = "sleep_moment" -> mine(wd, env)
      [] wd.pc = "sleep_taken" -> run_after_taken([wd EXCEPT !.ctf = 0])
      [] wd.pc = "solving" -> UNION {challenge_answer(wd, r) : r \in env.ans}
      [] OTHER -> run_iteration(wd, env, clock)

\* A CancelledError is thrown into the task where it is suspended: not yet
\* in run() (staggered_start), in the sleep of the except clause (line 748),
\* in the challenge cooldown (lines 733-738), or anywhere else in the try.
on_cancel(wd, env, clock) ==
    CASE wd.pc \in {"new", "stagger", "sleep_error"} ->
             {[wd EXCEPT !.pc = "cancelled", !.dur = NoSleep]}
      [] wd.pc = "sleep_cooldown" ->
             IF ~wd.running THEN {LeaveLoop(wd)} ELSE run_iteration(wd, env, clock)
      [] OTHER -> {LeaveLoop(wd)}

\* No mine() call has been made directly yet.
NoMine ==
    [seq |-> 0, n |-> 0, at |-> "none", token_id |-> None, code |-> 0,
     response |-> Plain]

(***************************************************************************)
(* LLMClient, the challenge solver.                                        *)
(***************************************************************************)
\* A prompt, as far as the solver looks at it: whether it is a text at all
\* (the Gateway's JSON may hold anything under "prompt"), the N the pattern
\* `exactly\s+(\d+)\s+words` finds in it and the Y the pattern
\* `between\s+(\d+)\s+and\s+(\d+)\s+words` finds (None: no match).
Prompt(text, exactly, between_hi) ==
    [text |-> text, exactly |-> exactly, between_hi |-> between_hi]

\* An answer text: its whitespace-separated words, whether single blanks
\* separate them (tidy), and whether a quote character opens (lq) or closes
\* (rq) it.
Answer(words, tidy, lq, rq) == [words |-> words, tidy |-> tidy, lq |-> lq, rq |-> rq]

\* No call of the solver: no arguments, no outcome.
NoSolverIn == [prompt |-> Prompt(TRUE, None, None), replies |-> <<>>]
NoSolverOut ==
    [called |-> FALSE, raised |-> FALSE, requests |-> 0, delay |-> 0, kind |-> "none",
     answer |-> Answer(<<>>, TRUE, FALSE, FALSE),
     submitted |-> Answer(<<>>, TRUE, FALSE, FALSE)]

\* words[:n+1] for words[:n]: what C15 rules out.
Truncate_one_more(a, n) ==
    IF Len(a.words) > n
    THEN Answer(SubSeq(a.words, 1, n + 1), TRUE, a.lq, n + 1 = Len(a.words) /\ a.rq)
    ELSE a

\* _validate_answer lines 299-302 and 308-311: words = answer.split(); if
\* there are more than n, answer = " ".join(words[:n]).
Truncate(a, n) ==
    IF Len(a.words) > n
    THEN Answer(SubSeq(a.words, 1, n), TRUE, a.lq /\ n >= 1, FALSE)
    ELSE a

\* _validate_answer: the rule for "exactly", then the rule for "between".
validate_answer(prompt, a) ==
    LET a1 == IF prompt.exactly # None THEN Truncate(a, prompt.exactly) ELSE a
    IN  IF prompt.between_hi # None THEN Truncate(a1, prompt.between_hi) ELSE a1

\* handle_challenge line 618: answer.strip().strip('"').strip("'").strip()
sanitize(a) == [a EXCEPT !.lq = FALSE, !.rq = FALSE]

\* _fallback_answer: the five sentences, of 8, 8, 7, 8 and 7 words; their
\* words are numbered from 100 * i on.
FallbackLength == <<8, 8, 7, 8, 7>>
FallbackSentence(i) ==
    Answer([j \in 1 .. FallbackLength[i] |-> 100 * i + j], TRUE, FALSE, FALSE)
FallbackAnswers == {FallbackSentence(i) : i \in 1 .. Len(FallbackLength)}

\* One attempt's outcome: the LLM's reply gives an answer, or the attempt
\* raises (no reply, an HTTP error, a body that is not the JSON expected).
LLMReply(ok, a) == [ok |-> ok, answer |-> a]
LLMFailure == LLMReply(FALSE, Answer(<<>>, TRUE, FALSE, FALSE))

SolverOut(raised, requests, delay, kind, a) ==
    [called |-> TRUE, raised |-> raised, requests |-> requests, delay |-> delay,
     kind |-> kind, answer |-> a, submitted |-> sanitize(a)]

\* solve_challenge: _build_prompt (outside the try: its re.search raises on
\* a prompt that is no text), the two attempts, the fallback.  replies[k] is
\* what attempt k meets.  The set of outcomes: random.choice picks.
solve_challenge(prompt, replies) ==
    IF ~prompt.text
    THEN {SolverOut(TRUE, 0, 0, "none", Answer(<<>>, TRUE, FALSE, FALSE))}
    ELSE IF replies[1].ok
    THEN {SolverOut(FALSE, 1, 0, "generated", validate_answer(prompt, replies[1].answer))}
    ELSE IF replies[2].ok
    THEN {SolverOut(FALSE, 2, 5, "generated", validate_answer(prompt, replies[2].answer))}
    ELSE {SolverOut(FALSE, 2, 5, "fallback", a) : a \in FallbackAnswers}


(***************************************************************************)
(* Initial state: a fresh process, nothing restored.                       *)
(***************************************************************************)
\* Everything but the fleet's accounts, the state file and the solver's
\* input, which the specifications below start from differently.
InitRest ==
    /\ tried_tokens = {}
    /\ free_tokens = <<>>
    /\ ever_taken = {}
    /\ free_recency = <<>>
    /\ last_call = NoCall
    /\ now = 0
    /\ posted = [w \in Workers |-> 0]
    /\ last_post = [w \in Workers |-> None]
    /\ moment_call = NoMomentCall
    /\ moment_states = [w \in Workers |-> <<>>]
    /\ pc = [w \in Workers |-> "new"]
    /\ ctf = [w \in Workers |-> 0]
    /\ chal = [w \in Workers |-> NoChallenge]
    /\ result = [w \in Workers |-> NoResult]
    /\ sleep_dur = [w \in Workers |-> NoSleep]
    /\ main_pc = "gather"
    /\ save_pc = "new"
    /\ cancel_req = {}
    /\ interrupted = FALSE
    /\ stats_file = <<>>
    /\ report = <<>>
    /\ idle_save = FALSE
    /\ stats = [w \in Workers |-> NoStats]
    /\ last_mine = NoMine
    /\ solver_out = NoSolverOut
    /\ load_call = "none"
    /\ snapshot = <<>>
    /\ taken_streak = 0

InitFleet(accounts) ==
    /\ farmers = accounts
    /\ status = [w \in Workers |-> "idle"]
    /\ trust_score = [w \in Workers |-> 0]
    /\ running = [w \in Workers |-> FALSE]
    /\ state_file = <<>>
    /\ solver_in = NoSolverIn
    /\ InitRest

\* One worker per API key of the bound.
Init == InitFleet(Workers)

(***************************************************************************)
(* The registry driven directly: any caller, any ID, any order.            *)
(***************************************************************************)
MarkTakenCall(id) ==
    /\ SetRegistry(mark_taken(Reg, id))
    /\ ever_taken' = ever_taken \cup {id}
    /\ last_call' = [op |-> "mark_taken", arg |-> id, ret |-> None,
                     was_free |-> id \in Range(free_tokens)]
    /\ UNCHANGED <<momvars, workervars, ctlvars, unitvars>>

MarkFreeCall(id) ==
    /\ SetRegistry(mark_free(Reg, id))
    /\ last_call' = [op |-> "mark_free", arg |-> id, ret |-> None,
                     was_free |-> id \in Range(free_tokens)]
    /\ UNCHANGED <<ever_taken, momvars, workervars, ctlvars, unitvars>>

GetNextTokenCall ==
    /\ \E t \in get_next_token(Reg) :
          last_call' = [op |-> "get_next_token", arg |-> None, ret |-> t, was_free |-> FALSE]
    /\ UNCHANGED <<tried_tokens, free_tokens, ever_taken, free_recency, momvars,
                   workervars, ctlvars, unitvars>>

NextRegistry ==
    \/ \E id \in TokenRange : MarkTakenCall(id)
    \/ \E id \in TokenRange : MarkFreeCall(id)
    \/ GetNextTokenCall

SpecRegistry == Init /\ [][NextRegistry]_vars

(***************************************************************************)
(* One account's MomentsManager driven directly, against a clock.          *)
(***************************************************************************)
Tick ==
    /\ now < MaxClock
    /\ now' = now + 1
    /\ UNCHANGED <<regvars, posted, last_post, moment_call, workervars, ctlvars,
                   unitvars>>

\* post() with the Gateway answering with or without a success flag.
PostCall(w, success) ==
    LET sch == moments_post(SchedulerOf(w), now, success)
    IN  /\ posted' = [posted EXCEPT ![w] = sch.posted]
        /\ last_post' = [last_post EXCEPT ![w] = sch.last_post]
        /\ moment_call' = [seq |-> 1 - moment_call.seq, w |-> w,
                           can |-> can_post(posted[w], last_post[w], now),
                           success |-> success]
        /\ UNCHANGED <<regvars, now, workervars, ctlvars, unitvars>>

NextMoments ==
    \/ Tick
    \/ \E success \in BOOLEAN : PostCall(1, success)

SpecMoments == Init /\ [][NextMoments]_vars

(***************************************************************************)
(* The fleet: FarmerController.run, main, and the asyncio runner.          *)
(***************************************************************************)
World(w) ==
    [w |-> w, reg |-> Reg, ever |-> ever_taken, mst |-> moment_states,
     sch |-> SchedulerOf(w), status |-> status[w],
     trust |-> trust_score[w], running |-> running[w], pc |-> pc[w],
     ctf |-> ctf[w], chal |-> chal[w], result |-> result[w], dur |-> sleep_dur[w],
     stats |-> stats[w]]

CommitWorld(w, wd) ==
    /\ SetRegistry(wd.reg)
    /\ ever_taken' = wd.ever
    /\ moment_states' = wd.mst
    /\ posted' = [posted EXCEPT ![w] = wd.sch.posted]
    /\ last_post' = [last_post EXCEPT ![w] = wd.sch.last_post]
    /\ status' = [status EXCEPT ![w] = wd.status]
    /\ trust_score' = [trust_score EXCEPT ![w] = wd.trust]
    /\ running' = [running EXCEPT ![w] = wd.running]
    /\ pc' = [pc EXCEPT ![w] = wd.pc]
    /\ ctf' = [ctf EXCEPT ![w] = wd.ctf]
    /\ chal' = [chal EXCEPT ![w] = wd.chal]
    /\ result' = [result EXCEPT ![w] = wd.result]
    /\ sleep_dur' = [sleep_dur EXCEPT ![w] = wd.dur]
    /\ UNCHANGED <<last_call, now, moment_call>>

\* The fleet keeps no count of what its workers did: of AccountStats it holds
\* the status and the trust score, which are all that run() reads.
Commit(w, wd) ==
    /\ CommitWorld(w, wd)
    /\ UNCHANGED unitvars

\* The save_loop task, as a task of the gather.
SaveTask == 0

LiveWorkers == {w \in farmers : pc[w] \notin Finished}
LiveTasks == LiveWorkers \cup (IF save_pc \in {"new", "sleep"} THEN {SaveTask} ELSE {})

\* staggered_start: the first step of worker w's task.  The tasks take their
\* first steps in the order gather made them; the first worker's delay is 0.
TaskStart(w, env) ==
    /\ pc[w] = "new"
    /\ w \notin cancel_req
    /\ \A v \in farmers : v < w => pc[v] # "new"
    /\ IF w = 1
       THEN \E bal \in env.bal : \E wd \in run_start(World(w), env, bal, now) :
               Commit(w, wd)
       ELSE \E wd \in Suspend(World(w), "stagger", (w - 1) * 20, (w - 1) * 20) : Commit(w, wd)
    /\ UNCHANGED ctlvars

\* The sleep worker w is in ends, or its solver returns; by then every task
\* of the gather, save_loop included, has taken its first step.
Wake(w, env) ==
    /\ pc[w] \notin Finished \cup {"new"}
    /\ w \notin cancel_req
    /\ \A v \in farmers : pc[v] # "new"
    /\ save_pc # "new"
    /\ \E wd \in wake(World(w), env, now) : Commit(w, wd)
    /\ UNCHANGED ctlvars

\* The pending CancelledError reaches worker w.
DeliverCancel(w, env) ==
    /\ w \in cancel_req
    /\ \E wd \in on_cancel(World(w), env, now) : Commit(w, wd)
    /\ cancel_req' = cancel_req \ {w}
    /\ UNCHANGED <<farmers, main_pc, save_pc, interrupted, state_file, stats_file, report,
                   idle_save>>

\* sum(f.stats.trust_score for f in self.farmers)
RECURSIVE SumTrust(_, _)
SumTrust(trust, fleet) ==
    IF fleet = {} THEN 0
    ELSE LET w == CHOOSE v \in fleet : TRUE
         IN  trust[w] + SumTrust(trust, fleet \ {w})

\* A quotient of two integers as Python's `/` gives it: not rounded to any
\* number of decimals.  The model keeps numerator and denominator.
Quotient(num, den) == [num |-> num, den |-> den]

\* The mean rounded to two decimals, as round(x, 2) gives it: what the
\* snapshot does not hold.
avg_trust_rounded(trust, fleet) ==
    IF fleet = {} THEN Quotient(0, 1)
    ELSE Quotient((200 * SumTrust(trust, fleet) + Cardinality(fleet))
                     \div (2 * Cardinality(fleet)), 100)

\* get_stats line 780: the mean, or 0 for a fleet of none.
avg_trust(trust, fleet) ==
    IF fleet = {} THEN Quotient(0, 1)
    ELSE Quotient(SumTrust(trust, fleet), Cardinality(fleet))

\* get_stats with `>` for `>=`: what C19 rules out.
get_stats_above_target(stat, trust, run) ==
    [status |-> stat, trust_score |-> trust,
     total_accounts |-> Cardinality(farmers),
     completed |-> Cardinality({w \in farmers : trust[w] > TRUST_TARGET}),
     avg_trust |-> avg_trust(trust, farmers),
     running |-> Cardinality({w \in farmers : run[w]})]

\* DashboardServer.get_stats, as far as the model holds the stats.
get_stats(stat, trust, run) ==
    [status |-> stat, trust_score |-> trust,
     total_accounts |-> Cardinality(farmers),
     completed |-> Cardinality({w \in farmers : trust[w] >= TRUST_TARGET}),
     avg_trust |-> avg_trust(trust, farmers),
     running |-> Cardinality({w \in farmers : run[w]})]

\* list(self.tried_tokens): the set as a list, here in ascending order.
RECURSIVE AsList(_)
AsList(S) ==
    IF S = {} THEN <<>>
    ELSE LET m == CHOOSE x \in S : \A y \in S : x <= y
         IN  <<m>> \o AsList(S \ {m})

\* One entry of the state file's JSON object: "absent", "ok" with its
\* value, or "null" (a JSON null, or a number: a value len() raises on).
Field(kind, value) == [kind |-> kind, value |-> value]

\* The state file: "object" with its three entries, "nonobject" (JSON, but a
\* list or a number) or "garbage" (no JSON: cut short, overwritten).
StateFile(kind, tried, free, mst) ==
    [kind |-> kind, tried_tokens |-> tried, free_tokens |-> free, moment_states |-> mst]

\* SharedState.save: what the state file holds afterwards.
shared_save(reg, mst) ==
    <<StateFile("object", Field("ok", AsList(reg.tried)), Field("ok", reg.free),
                Field("ok", mst))>>

\* What an attribute holds that was assigned a JSON null or a number where
\* a list or a dictionary belongs: the model writes it as a list that holds
\* None.
Unsized == <<None>>

\* SharedState: the three attributes, and how load() ended.
Shared(tried, free, mst, outcome) ==
    [tried |-> tried, free |-> free, mst |-> mst, outcome |-> outcome]

\* SharedState.load on the state sh and the file: the attributes are
\* assigned one after the other inside the try (lines 154-156), then the
\* print of lines 158-160 takes their len(); whatever raises ends in the
\* except clause, with the assignments made so far in place.
shared_load(sh, file) ==
    IF file = <<>> THEN [sh EXCEPT !.outcome = "missing"]
    ELSE LET d == file[1]
             get(f, default) == IF f.kind = "absent" THEN default
                                ELSE IF f.kind = "null" THEN Unsized
                                ELSE f.value
             tried == Range(get(d.tried_tokens, <<>>))
             free == get(d.free_tokens, <<>>)
             mst == IF d.moment_states.kind = "null"
                    THEN [w \in Workers |-> Unsized]
                    ELSE get(d.moment_states, [w \in Workers |-> <<>>])
         IN  IF d.kind # "object" \/ d.tried_tokens.kind = "null"
             THEN [sh EXCEPT !.outcome = "failed"]
             ELSE IF d.free_tokens.kind = "null" \/ d.moment_states.kind = "null"
             THEN Shared(tried, free, mst, "failed")
             ELSE Shared(tried, free, mst, "loaded")

\* FarmerController.save_stats, given status and running as they are then.
SaveStats(stat, run) ==
    /\ stats_file' = <<get_stats(stat, trust_score, run)>>
    /\ state_file' = shared_save(Reg, moment_states)

\* save_loop: one turn of `while any(f.running ...)`.
SaveLoopStep ==
    /\ save_pc \in {"new", "sleep"}
    /\ SaveTask \notin cancel_req
    /\ \A w \in farmers : pc[w] # "new"
    /\ IF \E w \in farmers : running[w]
       THEN /\ SaveStats(status, running)
            /\ save_pc' = "sleep"
            /\ idle_save' = (idle_save \/ LiveWorkers = {})
       ELSE /\ save_pc' = "done"
            /\ UNCHANGED <<stats_file, state_file, idle_save>>
    /\ UNCHANGED <<farmers, regvars, momvars, workervars, main_pc, cancel_req, interrupted,
                   report, unitvars>>

\* The pending CancelledError reaches save_loop, in its sleep or before its
\* first step.
SaveLoopCancel ==
    /\ SaveTask \in cancel_req
    /\ save_pc' = "cancelled"
    /\ cancel_req' = cancel_req \ {SaveTask}
    /\ UNCHANGED <<farmers, regvars, momvars, workervars, main_pc, interrupted, state_file,
                   stats_file, report, idle_save, unitvars>>

\* The process interrupt: the main task is cancelled while it awaits the
\* gather, which cancels every task of the gather that has not finished.
Interrupt ==
    /\ ~interrupted
    /\ main_pc = "gather"
    /\ interrupted' = TRUE
    /\ cancel_req' = LiveTasks
    /\ UNCHANGED <<farmers, regvars, momvars, workervars, main_pc, save_pc, state_file,
                   stats_file, report, idle_save, unitvars>>

\* stop() that clears the flag and leaves the status: what C7 rules out.
farmer_stop_flag_only(run, stat) == [running |-> FALSE, status |-> stat]

\* AccountFarmer.stop, for one worker: the new running flag and status.
farmer_stop(run, stat) == [running |-> FALSE, status |-> "stopped"]

\* FarmerController.stop_all
stop_all(run, stat) ==
    [running |-> [w \in Workers |-> IF w \in farmers
                                    THEN farmer_stop(run[w], stat[w]).running
                                    ELSE run[w]],
     status |-> [w \in Workers |-> IF w \in farmers
                                   THEN farmer_stop(run[w], stat[w]).status
                                   ELSE stat[w]]]

\* print_report: what it prints of each account.
print_report(trust) == <<trust>>

\* main() resumes from `await controller.run()`: with the CancelledError of a
\* cancelled gather it stops the workers, saves and reports (lines 1058-1062);
\* with the gather's result, run() reports (line 1014).  The cancelled tasks
\* run before main does.
MainResume ==
    /\ main_pc = "gather"
    /\ cancel_req = {}
    /\ interrupted \/ LiveTasks = {}
    /\ IF interrupted
       THEN LET stopped == stop_all(running, status)
            IN  /\ running' = stopped.running
                /\ status' = stopped.status
                /\ SaveStats(stopped.status, stopped.running)
                /\ main_pc' = "stopped"
       ELSE /\ main_pc' = "returned"
            /\ UNCHANGED <<running, status, stats_file, state_file>>
    /\ report' = print_report(trust_score)
    /\ UNCHANGED <<farmers, regvars, momvars, moment_states, trust_score, pc, ctf, chal,
                   result, sleep_dur, save_pc, cancel_req, interrupted, idle_save,
                   unitvars>>

\* asyncio.run, once main() has returned, may cancel the tasks that are
\* left (the runner's _cancel_all_tasks); where it does not, they run on.
RunnerCancelAll ==
    /\ main_pc # "gather"
    /\ cancel_req = {}
    /\ LiveWorkers # {}
    /\ cancel_req' = LiveWorkers
    /\ UNCHANGED <<farmers, regvars, momvars, workervars, main_pc, save_pc, interrupted,
                   state_file, stats_file, report, idle_save, unitvars>>

\* The Gateway as the fleet meets it: responses that bring a worker to every
\* suspension point of run(), a trust score at the target or none.
FleetResponses ==
    {r \in AllResponses :
        /\ r.trust \in {None, TRUST_TARGET}
        /\ r.retry_after = None
        /\ r.id_status = ""
        /\ r.error \in {"", "CHALLENGE_REQUIRED", "RATE_LIMITED"}
        /\ r.challenge \in {"none", "ok"}}

FleetEnv ==
    Environment(FleetResponses, {r \in FleetResponses : Earned(r)},
                {None, TRUST_TARGET}, {"ok", "bad"})

\* The Gateway as one worker meets it: every response.
WorkerEnv ==
    Environment(AllResponses, AllResponses, {None} \cup TrustValues,
                {"ok", "fail", "bad"})

FleetNext(env) ==
    \/ \E w \in farmers : TaskStart(w, env)
    \/ \E w \in farmers : Wake(w, env)
    \/ \E w \in farmers : DeliverCancel(w, env)
    \/ SaveLoopStep
    \/ SaveLoopCancel
    \/ Interrupt
    \/ MainResume
    \/ RunnerCancelAll

\* The whole fleet.
Next == FleetNext(FleetEnv)
Spec == Init /\ [][Next]_vars

\* A fleet of one account, against every response of the Gateway.
NextWorker == FleetNext(WorkerEnv)
SpecWorker == InitFleet({1}) /\ [][NextWorker]_vars

\* The event loop runs every callback that is ready: a CancelledError that
\* is pending is thrown, and main() resumes once its await is over.  The
\* interrupt, the timers and the Gateway's answers owe nothing.
FairSpec ==
    /\ Spec
    /\ \A w \in Workers : WF_vars(DeliverCancel(w, FleetEnv))
    /\ WF_vars(SaveLoopCancel)
    /\ WF_vars(MainResume)

(***************************************************************************)
(* mine() called directly: one worker's mining cycles, one after another,  *)
(* each against any reply of the Gateway, while other workers call the     *)
(* registry in between.                                                    *)
(***************************************************************************)
\* The bodies the Gateway sends with an HTTP 200.
MineBodies ==
    {[Plain EXCEPT !.id_status = "taken"],
     [Plain EXCEPT !.cw_earned = 15, !.cw_balance = 1000, !.trust = 12],
     [Plain EXCEPT !.hash = TRUE],
     [Plain EXCEPT !.cw_earned = 0, !.cw_balance = 1000],
     [Plain EXCEPT !.error = "CHALLENGE_REQUIRED", !.challenge = "ok"],
     [Plain EXCEPT !.error = "CHALLENGE_REQUIRED", !.challenge = "bad"],
     [Plain EXCEPT !.error = "CHALLENGE_REQUIRED"],
     [Plain EXCEPT !.error = "RATE_LIMITED"]}

\* The replies to an inscription request: a 200 with a body, an HTTP 5xx
\* with an empty body, with a body that is not JSON and with a JSON body
\* (one naming the error, one that says the ID is taken), and no reply.
MineReplies ==
    {Reply(200, "json", b) : b \in MineBodies}
    \cup {Reply(503, "empty", Plain), Reply(502, "garbage", Plain),
          Reply(503, "json", [Plain EXCEPT !.error = "OTHER"]),
          Reply(500, "json", [Plain EXCEPT !.id_status = "taken"]),
          Reply(0, "empty", Plain)}

\* The replies to an answer submission.
AnswerReplies ==
    {Reply(200, "json", [Plain EXCEPT !.hash = TRUE, !.cw_balance = 1000]),
     Reply(200, "json", [Plain EXCEPT !.cw_earned = 0, !.trust = 12]),
     Reply(200, "json", [Plain EXCEPT !.error = "CHALLENGE_FAILED"]),
     Reply(200, "json", [Plain EXCEPT !.error = "CHALLENGE_USED"]),
     Reply(504, "empty", Plain),
     Reply(503, "json", [Plain EXCEPT !.error = "OTHER"])}

\* What a direct call leaves behind: the world, the counters included.
CommitMine(wd) ==
    /\ CommitWorld(1, wd)
    /\ stats' = [stats EXCEPT ![1] = wd.stats]
    /\ UNCHANGED <<ctlvars, solver_in, solver_out, load_call, snapshot, taken_streak>>

\* mine(), from its first line to its return or to the await of the solver.
MineCall ==
    /\ pc[1] # "solving"
    /\ last_mine.n < MaxMines
    /\ \E token_id \in get_next_token(Reg) :
          \E h \in IF token_id = None THEN {Reply(0, "empty", Plain)} ELSE MineReplies :
             /\ \E wd \in mine_token(World(1), token_id, {execute(h)}) : CommitMine(wd)
             /\ last_mine' = [seq |-> 1 - last_mine.seq, n |-> last_mine.n + 1,
                              at |-> IF token_id = None THEN "no_request" ELSE "mine",
                              token_id |-> token_id, code |-> h.code,
                              response |-> execute(h)]

\* handle_challenge(), from the return of the solver to its own return or
\* to the await of the solver for the replacement challenge.
AnswerCall ==
    /\ pc[1] = "solving"
    /\ \E h \in AnswerReplies :
          /\ \E wd \in challenge_answer(World(1), execute(h)) : CommitMine(wd)
          /\ last_mine' = [seq |-> 1 - last_mine.seq, n |-> last_mine.n,
                           at |-> "answer", token_id |-> chal[1].token_id,
                           code |-> h.code, response |-> execute(h)]

\* Another worker's mine() or handle_challenge() marks an ID, between two
\* steps of this worker.
OtherMarksTaken(id) ==
    /\ SetRegistry(mark_taken(Reg, id))
    /\ ever_taken' = ever_taken \cup {id}
    /\ UNCHANGED <<last_call, momvars, workervars, ctlvars, unitvars>>

OtherMarksFree(id) ==
    /\ SetRegistry(mark_free(Reg, id))
    /\ UNCHANGED <<ever_taken, last_call, momvars, workervars, ctlvars, unitvars>>

NextMine ==
    \/ MineCall
    \/ AnswerCall
    \/ \E id \in TokenRange : OtherMarksTaken(id)
    \/ \E id \in TokenRange : OtherMarksFree(id)

SpecMine == InitFleet({1}) /\ [][NextMine]_vars

(***************************************************************************)
(* get_stats() called directly, on a fleet of any size up to NumAccounts   *)
(* whose workers have any of the trust scores below.                       *)
(***************************************************************************)
Accounts == 1 .. NumAccounts

\* Trust scores below, at and above the target.
SnapshotTrust == {0, 10, TRUST_TARGET - 1, TRUST_TARGET, 70}

InitStatus ==
    /\ \E n \in 0 .. NumAccounts : farmers = 1 .. n
    /\ trust_score \in [Accounts -> SnapshotTrust]
    /\ running \in [Accounts -> BOOLEAN]
    /\ \A a \in Accounts \ farmers : trust_score[a] = 0 /\ ~running[a]
    /\ status = [a \in Accounts |-> "idle"]
    /\ state_file = <<>>
    /\ solver_in = NoSolverIn
    /\ InitRest

\* get_stats() that also refreshes what it reports: an account at the target
\* is marked completed by the reader.
GetStatsCall_refreshes_status ==
    /\ snapshot' = <<get_stats(status, trust_score, running)>>
    /\ status' = [w \in DOMAIN status |->
                    IF w \in farmers /\ trust_score[w] >= TRUST_TARGET
                    THEN "completed" ELSE status[w]]
    /\ UNCHANGED <<regvars, momvars, moment_states, trust_score, running, pc, ctf,
                   chal, result, sleep_dur, ctlvars, stats, last_mine, solver_in,
                   solver_out, load_call, taken_streak>>

\* A reader asks for the snapshot.
GetStatsCall ==
    /\ snapshot' = <<get_stats(status, trust_score, running)>>
    /\ UNCHANGED <<regvars, momvars, workervars, ctlvars, stats, last_mine, solver_in,
                   solver_out, load_call, taken_streak>>

NextStatus == GetStatsCall

SpecStatus == InitStatus /\ [][NextStatus]_vars

(***************************************************************************)
(* The dashboard's readers beside a running account: every step of the     *)
(* fleet of one account, and get_stats() between any two of them.          *)
(***************************************************************************)
NextReaders == FleetNext(FleetEnv) \/ GetStatsCall

SpecReaders == InitFleet({1}) /\ [][NextReaders]_vars

(***************************************************************************)
(* run() against mine() as run() meets it: each mining cycle returns one   *)
(* of the results mine() and handle_challenge() can return, or raises.     *)
(* The token range of the program holds a thousand IDs, so a worker can    *)
(* be told "taken" more than ten times.  The moment of an iteration is     *)
(* left out here: it does not read or write the failure counter.           *)
(***************************************************************************)
\* What mine() can return, as far as run() reads it.
MineResults ==
    {Failure("token_taken"), Failure("all_tokens_taken"), Failure("unknown"),
     Failure("challenge_failed"), Result("rate_limited", FALSE, FALSE, 60),
     Result("server_error", FALSE, FALSE, 60), Result("", TRUE, FALSE, None),
     Result("", TRUE, TRUE, None)}

\* The sleeps of run() that end in the next iteration.
LoopSleeps == {"sleep_delay", "sleep_cooldown", "sleep_rate", "sleep_server", "sleep_error"}

\* The world run() is in when its next mine() begins: at the start of run()
\* the flags and the counter are set (lines 666-686).
LoopWorld ==
    IF pc[1] = "new"
    THEN [World(1) EXCEPT !.running = TRUE, !.status = "farming", !.ctf = 0]
    ELSE [World(1) EXCEPT !.result = NoResult]

CommitLoop(wd) ==
    /\ CommitWorld(1, wd)
    /\ UNCHANGED <<ctlvars, stats, last_mine, solver_in, solver_out, load_call, snapshot>>

\* An iteration of run(): the loop test holds, mine() returns r, having
\* cached the trust score a success carried, and run() handles r.
LoopCycle ==
    /\ pc[1] \in LoopSleeps \cup {"new"}
    /\ LoopWorld.running /\ LoopWorld.trust < TRUST_TARGET
    /\ \E r \in MineResults :
          \E trust \in IF r.success THEN {LoopWorld.trust, TRUST_TARGET}
                                    ELSE {LoopWorld.trust} :
             /\ \E wd \in run_on_result([LoopWorld EXCEPT !.trust = trust], r) :
                   CommitLoop(wd)
             /\ taken_streak' = IF r.error # "token_taken" THEN 0
                                ELSE IF taken_streak > 10 THEN taken_streak
                                ELSE taken_streak + 1

\* An iteration of run() in which mine() raises.
LoopRaise ==
    /\ pc[1] \in LoopSleeps \cup {"new"}
    /\ LoopWorld.running /\ LoopWorld.trust < TRUST_TARGET
    /\ \E wd \in run_on_exception(LoopWorld) : CommitLoop(wd)
    /\ taken_streak' = 0

\* The contested-space cooldown ends.
LoopCooldownEnds ==
    /\ pc[1] = "sleep_taken"
    /\ \E wd \in wake(World(1), WorkerEnv, now) : CommitLoop(wd)
    /\ UNCHANGED taken_streak

NextLoop == LoopCycle \/ LoopRaise \/ LoopCooldownEnds

SpecLoop == InitFleet({1}) /\ [][NextLoop]_vars

(***************************************************************************)
(* The fleet on a contested ID space: the Gateway answers every            *)
(* inscription with the taken status, and nobody interrupts the process.   *)
(***************************************************************************)
TakenEnv ==
    Environment({[Plain EXCEPT !.id_status = "taken"]}, {},
                {None, TRUST_TARGET - 1}, {"ok", "fail"})

NextContested ==
    \/ \E w \in farmers : TaskStart(w, TakenEnv)
    \/ \E w \in farmers : Wake(w, TakenEnv)
    \/ SaveLoopStep

SpecContested == Init /\ [][NextContested]_vars

\* The event loop runs every task that is ready, every sleep ends, and the
\* Gateway answers every request.
FairContested ==
    /\ SpecContested
    /\ \A w \in Workers : WF_vars(TaskStart(w, TakenEnv))
    /\ \A w \in Workers : WF_vars(Wake(w, TakenEnv))
    /\ WF_vars(SaveLoopStep)

(***************************************************************************)
(* solve_challenge() called directly: any prompt, any answer of the LLM to *)
(* each of the two attempts.                                               *)
(***************************************************************************)
\* The LLM's answers, after the strip() of line 400: 0 to MaxWords words,
\* numbered in order; in quotes or not, tidy or not.
GeneratedAnswers ==
    {Answer([j \in 1 .. k |-> j], tidy, q, q) :
        k \in 0 .. MaxWords, tidy \in BOOLEAN, q \in BOOLEAN}
    \ {Answer(<<>>, tidy, TRUE, TRUE) : tidy \in BOOLEAN}

\* Prompts with no word count, an exact one, a range, and both; and a
\* prompt that is no text.
SolverPrompts ==
    {Prompt(TRUE, n, y) : n \in {None} \cup 0 .. MaxWords - 1,
                          y \in {None} \cup 2 .. MaxWords - 1}
    \cup {Prompt(FALSE, None, None)}

\* The second attempt meets a reply only if the first one failed.
SolverReplies ==
    {<<LLMReply(TRUE, a), LLMFailure>> : a \in GeneratedAnswers}
    \cup {<<LLMFailure, LLMReply(TRUE, a)>> : a \in GeneratedAnswers}
    \cup {<<LLMFailure, LLMFailure>>}

InitSolver ==
    /\ solver_in \in [prompt : SolverPrompts, replies : SolverReplies]
    /\ farmers = {1}
    /\ status = [w \in Workers |-> "idle"]
    /\ trust_score = [w \in Workers |-> 0]
    /\ running = [w \in Workers |-> FALSE]
    /\ state_file = <<>>
    /\ InitRest

\* handle_challenge lines 615-618: the solver is called, its answer cleaned.
SolveCall ==
    /\ ~solver_out.called
    /\ solver_out' \in solve_challenge(solver_in.prompt, solver_in.replies)
    /\ UNCHANGED <<regvars, momvars, workervars, ctlvars, stats, last_mine, solver_in,
                   load_call, snapshot, taken_streak>>

NextSolver == SolveCall

SpecSolver == InitSolver /\ [][NextSolver]_vars

(***************************************************************************)
(* SharedState.load() called on a fresh SharedState, as setup() does, with *)
(* the state file missing, damaged, or holding any of the values below.    *)
(***************************************************************************)
LoadFields(values, none) ==
    {Field("ok", v) : v \in values} \cup {Field("absent", none), Field("null", none)}

LoadFiles ==
    {<<>>,
     <<StateFile("garbage", Field("absent", <<>>), Field("absent", <<>>),
                 Field("absent", [w \in Workers |-> <<>>]))>>,
     <<StateFile("nonobject", Field("absent", <<>>), Field("absent", <<>>),
                 Field("absent", [w \in Workers |-> <<>>]))>>}
    \cup {<<StateFile("object", tried, free, mst)>> :
             tried \in LoadFields({AsList(S) : S \in SUBSET TokenRange}, <<>>),
             free \in LoadFields({<<>>, <<TOKEN_ID_MIN>>, <<TOKEN_ID_MAX, TOKEN_ID_MIN>>},
                                 <<>>),
             mst \in LoadFields({[w \in Workers |-> <<>>],
                                 [w \in Workers |->
                                     IF w = 1 THEN <<Scheduler(1, 3)>> ELSE <<>>]},
                                [w \in Workers |-> <<>>])}

InitLoad ==
    /\ state_file \in LoadFiles
    /\ farmers = {1}
    /\ status = [w \in Workers |-> "idle"]
    /\ trust_score = [w \in Workers |-> 0]
    /\ running = [w \in Workers |-> FALSE]
    /\ solver_in = NoSolverIn
    /\ InitRest

\* FarmerController.setup line 959: self.shared.load()
LoadCall ==
    /\ load_call = "none"
    /\ LET sh == shared_load(Shared(tried_tokens, free_tokens, moment_states, "none"),
                             state_file)
       IN  /\ tried_tokens' = sh.tried
           /\ free_tokens' = sh.free
           /\ free_recency' = sh.free
           /\ moment_states' = sh.mst
           /\ load_call' = sh.outcome
    /\ UNCHANGED <<ever_taken, last_call, momvars, status, trust_score, running, pc, ctf,
                   chal, result, sleep_dur, ctlvars, stats, last_mine, solver_in,
                   solver_out, snapshot, taken_streak>>

NextLoad == LoadCall

SpecLoad == InitLoad /\ [][NextLoad]_vars

(***************************************************************************)
(* Claims about the registry.                                              *)
(***************************************************************************)
\* C1: after any sequence of mark_taken / mark_free calls from an empty
\* registry no ID is both in tried_tokens and in free_tokens, and every ID
\* ever passed to mark_taken is in tried_tokens.
C1_DisjointMonotonic ==
    /\ Range(free_tokens) \cap tried_tokens = {}
    /\ ever_taken \subseteq tried_tokens

\* mark_free has just been called on an ID that is taken, with other IDs free.
C1_Witness ==
    /\ last_call.op = "mark_free"
    /\ last_call.arg \in tried_tokens
    /\ free_tokens # <<>>

\* C2: get_next_token never returns a taken ID; with free_tokens non-empty
\* it returns the front of the list, which is the ID most recently added
\* among those still in it; with free_tokens empty and the whole range
\* taken it returns None.
C2_NextToken ==
    last_call.op = "get_next_token" =>
        /\ last_call.ret \notin tried_tokens
        /\ free_tokens # <<>> =>
              /\ last_call.ret = free_tokens[1]
              /\ last_call.ret = free_recency[1]
        /\ (free_tokens = <<>> /\ TokenRange \subseteq tried_tokens) =>
              last_call.ret = None
        /\ (free_tokens = <<>> /\ ~(TokenRange \subseteq tried_tokens)) =>
              last_call.ret \in TokenRange

\* get_next_token answered from a free list of two or more IDs, some ID taken.
C2_Witness ==
    /\ last_call.op = "get_next_token"
    /\ Len(free_tokens) >= 2
    /\ tried_tokens # {}
    /\ last_call.ret = free_tokens[1]

\* C17: mark_taken and mark_free are idempotent: the same call on the same ID
\* a second time leaves tried_tokens and free_tokens (order included) as the
\* first call left them; mark_free on a taken ID changes nothing, and
\* mark_free on an ID already in free_tokens does not change the list.
C17_Idempotent ==
    [][/\ \A id \in TokenRange :
             LET t == mark_taken(Reg, id)
                 f == mark_free(Reg, id)
             IN  /\ mark_taken(t, id) = t
                 /\ mark_free(f, id) = f
                 /\ id \in tried_tokens => f = Reg
                 /\ id \in Range(free_tokens) => f = Reg
       /\ (last_call' = last_call /\ last_call.op \in {"mark_taken", "mark_free"}) =>
             UNCHANGED <<tried_tokens, free_tokens>>
       /\ (last_call'.op = "mark_free"
             /\ last_call'.arg \in tried_tokens \cup Range(free_tokens)) =>
             UNCHANGED <<tried_tokens, free_tokens>>
      ]_vars

\* mark_free has just been called on an ID that was already in free_tokens,
\* behind another one.
C17_Witness ==
    /\ last_call.op = "mark_free"
    /\ Len(free_tokens) >= 2
    /\ \E i \in 2 .. Len(free_tokens) : free_tokens[i] = last_call.arg

\* C18: if reading or parsing the state file fails at any point, load()
\* leaves tried_tokens, free_tokens and moment_states all empty and does not
\* raise; with the file missing the state stays empty as well.
C18_LoadFailsEmpty ==
    /\ load_call \in {"none", "missing", "loaded", "failed"}
    /\ load_call \in {"missing", "failed"} =>
          /\ tried_tokens = {}
          /\ free_tokens = <<>>
          /\ moment_states = [w \in Workers |-> <<>>]

(***************************************************************************)
(* Claims about the moment scheduler.                                      *)
(***************************************************************************)
\* C10: post() adds exactly one to the posted count when can_post held and
\* the Gateway response carried a success flag, and leaves the posted count
\* and the last-post time alone otherwise; once the posted count has reached
\* MAX_MOMENTS it stays there and can_post is false whatever the clock says.
C10_PostCounts ==
    [][\A w \in Workers :
          /\ (moment_call' # moment_call /\ moment_call'.w = w) =>
                IF moment_call'.can /\ moment_call'.success
                THEN posted'[w] = posted[w] + 1
                ELSE posted'[w] = posted[w] /\ last_post'[w] = last_post[w]
          /\ (moment_call' = moment_call \/ moment_call'.w # w) =>
                (posted'[w] = posted[w] /\ last_post'[w] = last_post[w])
          /\ posted[w] >= MAX_MOMENTS =>
                /\ posted'[w] = posted[w]
                /\ ~can_post(posted[w], last_post[w], now)
                /\ ~can_post(posted'[w], last_post'[w], now')
      ]_vars

\* The quota is used up and the cooldown since the last post has elapsed.
C10_Witness ==
    \E w \in Workers :
        /\ posted[w] = MAX_MOMENTS
        /\ now - last_post[w] >= MOMENT_COOLDOWN_HOURS
        /\ moment_call.w = w /\ moment_call.success /\ ~moment_call.can

\* C11: right after a successful post can_post is false, and it stays false
\* until MOMENT_COOLDOWN_HOURS have elapsed since the last post; once they
\* have, can_post is true provided the posted count is below MAX_MOMENTS.
C11_Cooldown ==
    [][\A w \in Workers :
          /\ (moment_call' # moment_call /\ moment_call'.w = w
                /\ moment_call'.can /\ moment_call'.success) =>
                /\ last_post'[w] = now
                /\ ~can_post(posted'[w], last_post'[w], now')
          /\ (last_post'[w] # None /\ now' - last_post'[w] < MOMENT_COOLDOWN_HOURS) =>
                ~can_post(posted'[w], last_post'[w], now')
          /\ (last_post'[w] # None /\ now' - last_post'[w] >= MOMENT_COOLDOWN_HOURS
                /\ posted'[w] < MAX_MOMENTS) =>
                can_post(posted'[w], last_post'[w], now')
      ]_vars

\* The cooldown since a successful post has just elapsed, the quota has not
\* been used up, and can_post holds again.
C11_Witness ==
    /\ posted[1] \in 1 .. MAX_MOMENTS - 1
    /\ last_post[1] # None
    /\ now - last_post[1] = MOMENT_COOLDOWN_HOURS
    /\ can_post(posted[1], last_post[1], now)

C13_TokenTaken ==
    [][(last_mine' # last_mine /\ last_mine'.at = "mine"
          /\ last_mine'.response.id_status = "taken"
          /\ ~Is5xx(last_mine'.response)) =>
          LET x == last_mine'.token_id
          IN  /\ x \in tried_tokens'
              /\ x \notin Range(free_tokens')
              /\ stats'[1].tokens_taken = stats[1].tokens_taken + 1
              /\ stats'[1].total_mines = stats[1].total_mines
              /\ result'[1] = Failure("token_taken")
      ]_vars

\* Scenario A: from an empty registry the candidate was answered with the
\* taken status; it is the only taken ID, none is free, the count is 1.
C13_Witness ==
    /\ last_mine.at = "mine"
    /\ last_mine.response.id_status = "taken"
    /\ tried_tokens = {last_mine.token_id}
    /\ free_tokens = <<>>
    /\ stats[1].tokens_taken = 1

\* C14: when the response to the inscription of x has a hash or an earned
\* amount and no 5xx status, taken status or challenge demand, then after
\* mine() x is in free_tokens (at the front if it was added) unless it is in
\* tried_tokens, total_mines has grown by exactly one, the cached balance
\* and trust score are the response's (as they were where it has none) and
\* the result is a success.
C14_Mined ==
    [][(last_mine' # last_mine /\ last_mine'.at = "mine"
          /\ (last_mine'.response.hash \/ last_mine'.response.cw_earned # None)
          /\ ~Is5xx(last_mine'.response)
          /\ last_mine'.response.id_status # "taken"
          /\ last_mine'.response.error # "CHALLENGE_REQUIRED") =>
          LET x == last_mine'.token_id
              r == last_mine'.response
          IN  /\ x \in Range(free_tokens') \/ x \in tried_tokens'
              /\ (x \notin Range(free_tokens) /\ x \notin tried_tokens) =>
                    free_tokens'[1] = x
              /\ stats'[1].total_mines = stats[1].total_mines + 1
              /\ stats'[1].cw_balance =
                    IF r.cw_balance = None THEN stats[1].cw_balance ELSE r.cw_balance
              /\ trust_score'[1] = IF r.trust = None THEN trust_score[1] ELSE r.trust
              /\ result'[1].success
      ]_vars

(***************************************************************************)
(* Claims about the fleet.                                                 *)
(***************************************************************************)
\* C3: when the fleet is cancelled, every worker the CancelledError reaches,
\* in whichever sleep it is suspended, the post-challenge cooldown included,
\* leaves its loop at once: its task is finished after that step and no
\* further mining cycle has begun.
C3_CancelLeavesLoop ==
    [][\A w \in farmers :
          (w \in cancel_req /\ w \notin cancel_req') => pc'[w] \in Finished
      ]_vars

\* C4: a worker's status only moves idle -> farming, farming -> completed
\* and farming -> stopped; completed and stopped never change again and are
\* never reached from idle.
C4_Lifecycle ==
    [][\A w \in farmers :
          status'[w] # status[w] =>
              <<status[w], status'[w]>> \in {<<"idle", "farming">>,
                                             <<"farming", "completed">>,
                                             <<"farming", "stopped">>}
      ]_vars

\* C5: a worker whose run() ends, uncancelled and with the stop flag clear,
\* because its trust score is at or above TRUST_TARGET (seen at the startup
\* balance or after a mining cycle) has status completed.
C5_CompletedAtTarget ==
    [][\A w \in farmers :
          (/\ pc[w] \notin Finished
           /\ pc'[w] = "done"
           /\ w \notin cancel_req
           /\ running'[w]
           /\ trust_score'[w] >= TRUST_TARGET) => status'[w] = "completed"
      ]_vars

\* C6: save_loop runs only while some worker is still in its loop: once
\* every worker has left its loop, save_loop's test ends it; it never passes
\* the test, saves and sleeps again.
C6_PersistenceEnds == ~idle_save

\* The state main() leaves behind when it has handled the stop signal:
\* every worker stopped, the stats snapshot and the registry written as
\* they are then, the report printed.
ShutDown ==
    /\ main_pc = "stopped"
    /\ \A w \in farmers : status[w] = "stopped" /\ ~running[w]
    /\ stats_file = <<get_stats(status, trust_score, running)>>
    /\ state_file = shared_save(Reg, moment_states)
    /\ report = print_report(trust_score)

\* C7: once the stop signal has arrived, main() eventually has every worker
\* stopped, the stats snapshot and the registry saved and the report
\* printed, whatever the workers were doing when the signal came.
C7_ShutdownCompletes == (interrupted /\ main_pc = "gather") ~> ShutDown

\* The shutdown is complete with one worker at the target and another that
\* was not: it took the cancellation in its cooldown sleep and is still in
\* its loop.
C7_Witness ==
    /\ ShutDown
    /\ \E w \in farmers : trust_score[w] >= TRUST_TARGET
    /\ \E w \in farmers : pc[w] \notin Finished

C9_ChainBounded ==
    [][\A w \in farmers :
          /\ chal[w].depth <= 3 /\ chal'[w].depth <= 3
          /\ (pc[w] = "solving" /\ pc'[w] = "solving" /\ chal'[w] # chal[w]) =>
                /\ chal[w].depth < 3
                /\ chal'[w].depth = chal[w].depth + 1
                /\ chal'[w].token_id = chal[w].token_id
          /\ (pc[w] = "solving" /\ chal[w].depth = 3) => chal'[w] \in {chal[w], NoChallenge}
      ]_vars

\* The fourth challenge of a chain is being solved.
C9_Witness ==
    \E w \in farmers : pc[w] = "solving" /\ chal[w].depth = 3

(***************************************************************************)
(* Claims about the challenge solver.                                      *)
(***************************************************************************)
\* C15: for a prompt that demands exactly N words the solver's output is
\* the first N words of the generated answer when that has more than N
\* words, and the generated answer unmodified when it has N or fewer; for a
\* prompt that demands between X and Y words the answer is cut to its first
\* Y words when it is longer; what is submitted is that output without the
\* quotes around it.
C15_WordCountRepair ==
    (solver_out.called /\ solver_out.kind = "generated") =>
        LET p == solver_in.prompt
            g == IF solver_out.requests = 1 THEN solver_in.replies[1].answer
                 ELSE solver_in.replies[2].answer
            out == solver_out.answer
        IN  /\ (p.exactly # None /\ p.between_hi = None) =>
                  IF Len(g.words) > p.exactly
                  THEN /\ out.words = SubSeq(g.words, 1, p.exactly)
                       /\ out.tidy
                  ELSE out = g
            /\ (p.between_hi # None /\ p.exactly = None) =>
                  IF Len(g.words) > p.between_hi
                  THEN /\ out.words = SubSeq(g.words, 1, p.between_hi)
                       /\ out.tidy
                  ELSE out = g
            /\ (p.exactly = None /\ p.between_hi = None) => out = g
            /\ solver_out.submitted.words = out.words
            /\ ~solver_out.submitted.lq /\ ~solver_out.submitted.rq

\* "exactly 3 words" and the answer "one two three four": the first three
\* words are submitted.
C15_Witness ==
    /\ solver_out.called
    /\ solver_in.prompt = Prompt(TRUE, 3, None)
    /\ solver_in.replies[1] = LLMReply(TRUE, Answer(<<1, 2, 3, 4>>, TRUE, FALSE, FALSE))
    /\ solver_out.submitted = Answer(<<1, 2, 3>>, TRUE, FALSE, FALSE)

\* C16: solve_challenge makes one request and, only if that fails, exactly
\* one more, never more than two; if both fail it returns one of the fixed
\* fallback sentences; in every case it returns a text and does not raise.
C16_SolverReturns ==
    solver_out.called =>
        /\ ~solver_out.raised
        /\ solver_out.kind \in {"generated", "fallback"}
        /\ solver_out.requests = IF solver_in.replies[1].ok THEN 1 ELSE 2
        /\ (~solver_in.replies[1].ok /\ ~solver_in.replies[2].ok) =>
              /\ solver_out.kind = "fallback"
              /\ solver_out.answer \in FallbackAnswers

(***************************************************************************)
(* Claims about the status snapshot.                                       *)
(***************************************************************************)
\* C19: in the snapshot, completed is the number of workers whose trust
\* score is at or above TRUST_TARGET (2 for the scores 10, 65, 70) and
\* total_accounts is the size of the fleet.
C19_Completed ==
    snapshot # <<>> =>
        /\ snapshot[1].completed =
              Cardinality({a \in farmers : trust_score[a] >= TRUST_TARGET})
        /\ snapshot[1].total_accounts = Cardinality(farmers)
        /\ (\E a, b, c \in farmers :
               /\ {a, b, c} = farmers /\ Cardinality(farmers) = 3
               /\ trust_score[a] = 10 /\ trust_score[b] = 65 /\ trust_score[c] = 70) =>
              snapshot[1].completed = 2

\* The snapshot of a fleet of three with the trust scores 10, 65 and 70.
C19_Witness ==
    /\ snapshot # <<>>
    /\ farmers = 1 .. 3
    /\ trust_score[1] = 10 /\ trust_score[2] = 65 /\ trust_score[3] = 70
    /\ snapshot[1].completed = 2
    /\ snapshot[1].total_accounts = 3

\* C20 as the claim has it: avg_trust is the mean of the trust scores
\* rounded to two decimals, a whole number of hundredths (48.33 for the
\* scores 10, 65, 70).
C20_AvgTrustRounded ==
    snapshot # <<>> =>
        LET a == snapshot[1].avg_trust
            r == avg_trust_rounded(trust_score, farmers)
        IN  a.num * r.den = r.num * a.den

\* C20 as the code has it: avg_trust is the mean of the trust scores as the
\* division gives it, not rounded (145/3 for the scores 10, 65, 70, which
\* is not 48.33), and 0 for a fleet of none.
C20_AvgTrustExact ==
    snapshot # <<>> =>
        LET a == snapshot[1].avg_trust
        IN  /\ a.num * Cardinality(farmers) = SumTrust(trust_score, farmers) * a.den
            /\ farmers = {} => a.num = 0
            /\ (farmers = 1 .. 3 /\ trust_score[1] = 10 /\ trust_score[2] = 65
                  /\ trust_score[3] = 70) =>
                  /\ a.num * 3 = 145 * a.den
                  /\ a.num * 100 # 4833 * a.den

\* The snapshot of the scores 10, 65 and 70 holds their mean, 145/3.
C20_Witness ==
    /\ snapshot # <<>>
    /\ farmers = 1 .. 3
    /\ trust_score = <<10, 65, 70>>
    /\ snapshot[1].avg_trust = Quotient(145, 3)

(***************************************************************************)
(* C21: producing a status snapshot, between any two steps of a worker     *)
(* and any number of times, leaves the worker's stats (status, trust       *)
(* score, counters), its running flag, its moment scheduler and the whole  *)
(* token registry as they were.                                            *)
(***************************************************************************)
C21_SnapshotReadsOnly ==
    [][snapshot' # snapshot =>
          UNCHANGED <<status, trust_score, stats, running, posted, last_post,
                      moment_states, tried_tokens, free_tokens, ever_taken>>]_vars

\* A snapshot was taken of a running account between two of its mining
\* cycles, after it had posted a moment.
C21_Witness ==
    /\ snapshot # <<>>
    /\ snapshot[1].running = 1
    /\ snapshot[1].status[1] = "farming"
    /\ posted[1] = 1
    /\ pc[1] = "sleep_delay"

(***************************************************************************)
(* C22: whatever the other workers did to the registry between this        *)
(* worker's steps, the ID an inscription request of mine() carries is not  *)
(* in tried_tokens when the request is sent.  mine() takes the candidate   *)
(* and sends the request with no suspension between the two, so the        *)
(* registry at the request is the registry before the step.                *)
(***************************************************************************)
C22_RequestNotTaken ==
    [][(last_mine' # last_mine /\ last_mine'.at = "mine")
          => last_mine'.token_id \notin tried_tokens]_vars

\* A request went out while another ID was taken, and was answered with the
\* taken status.
C22_Witness ==
    /\ last_mine.at = "mine"
    /\ last_mine.response.id_status = "taken"
    /\ last_mine.token_id \in tried_tokens
    /\ Cardinality(tried_tokens) >= 2
    /\ stats[1].tokens_taken = 1

(***************************************************************************)
(* Claims about the failure counter of run().                              *)
(*                                                                         *)
(* C23: run() enters the 60-120 cooldown only when the last results of     *)
(* mine(), more than 10 of them, were all token_taken with no other        *)
(* outcome between them; the counter is 0 after the cooldown and after     *)
(* every successful mine.                                                  *)
(***************************************************************************)
C23_ConsecutiveTaken ==
    [][/\ (pc'[1] = "sleep_taken" /\ pc[1] # "sleep_taken")
            => /\ taken_streak' > 10
               /\ sleep_dur'[1] = Span(60, 120)
       /\ (pc[1] = "sleep_taken" /\ pc'[1] # "sleep_taken") => ctf'[1] = 0
       /\ (pc[1] # "sleep_taken" /\ result'[1].success) => ctf'[1] = 0]_vars

(***************************************************************************)
(* C24: a rate_limited result puts run() to sleep for retry_after plus     *)
(* 10..30, a server_error result for the retry delay signalled; neither    *)
(* changes the failure counter, neither is followed by the 120-200 delay   *)
(* (from such a sleep the worker reaches that delay only with another      *)
(* result), and however many such results came before, the sleep can end   *)
(* in the next iteration once every task of the fleet has started.         *)
(***************************************************************************)
C24_RetryDirectly ==
    [][\A w \in farmers :
          LET retry == IF result'[w].retry_after = None THEN 60
                       ELSE result'[w].retry_after
          IN  /\ result'[w].error = "rate_limited" /\ pc'[w] \notin Finished
                    => /\ pc'[w] = "sleep_rate"
                       /\ sleep_dur'[w] = Span(retry + 10, retry + 30)
                       /\ ctf'[w] = ctf[w]
              /\ result'[w].error = "server_error" /\ pc'[w] \notin Finished
                    => /\ pc'[w] = "sleep_server"
                       /\ sleep_dur'[w] = Span(retry, retry)
                       /\ ctf'[w] = ctf[w]
              /\ (pc[w] \in {"sleep_rate", "sleep_server"} /\ w \notin cancel_req
                     /\ save_pc # "new")
                    => /\ ENABLED Wake(w, WorkerEnv)
                       /\ pc'[w] = "sleep_delay" => result'[w].error # result[w].error]_vars

\* The worker is rate-limited with a retry_after of 30 after it was told
\* "taken" twice: it sleeps 40..60 and the counter is still 2.
C24_Witness ==
    /\ pc[1] = "sleep_rate"
    /\ result[1] = Result("rate_limited", FALSE, FALSE, 30)
    /\ sleep_dur[1] = Span(40, 60)
    /\ ctf[1] = 2

(***************************************************************************)
(* C25: the sleep after a mining cycle.  A worker in the 1860-1920 sleep   *)
(* that follows a success through a challenge starts no mining cycle      *)
(* until that sleep has elapsed: while the sleep has not ended (the step   *)
(* is the delivery of a CancelledError, not the end of the sleep) the      *)
(* worker gets no new result and sends no request.  After any other        *)
(* result that is not rate_limited, server_error or the end of the loop,   *)
(* the worker is in the 120-200 sleep or, before it, in the cooldown of    *)
(* the contested space.                                                    *)
(***************************************************************************)
C25_SleepBeforeNextCycle ==
    [][\A w \in farmers :
          /\ (pc[w] = "sleep_cooldown" /\ w \in cancel_req /\ w \notin cancel_req')
                => pc'[w] \in Finished
          /\ (result'[w].success /\ result'[w].challenge_cooldown
              /\ pc'[w] \notin Finished)
                => /\ pc'[w] = "sleep_cooldown"
                   /\ sleep_dur'[w] = Span(1860, 1920)
          /\ (result'[w] # NoResult /\ ~result'[w].challenge_cooldown
              /\ result'[w].error \notin {"rate_limited", "server_error", "exception"}
              /\ pc'[w] \notin Finished \cup {"solving"})
                => \/ pc'[w] = "sleep_delay" /\ sleep_dur'[w] = Span(120, 200)
                   \/ pc'[w] = "sleep_taken"]_vars

(***************************************************************************)
(* C26: once a moment has been posted, the account's posted count and      *)
(* last-post time are persisted: a process started at any later point      *)
(* loads them from the state file (SharedState.load), so that run()        *)
(* restores the scheduler the worker has now.                              *)
(***************************************************************************)
C26_PostPersisted ==
    \A w \in farmers :
        posted[w] > 0 =>
            LET fresh == Shared({}, <<>>, [v \in Workers |-> <<>>], "none")
                loaded == shared_load(fresh, state_file)
            IN  loaded.mst[w] = <<Scheduler(posted[w], last_post[w])>>

(***************************************************************************)
(* C27: handle_challenge, from the answer response r on.  With a hash or   *)
(* an earned amount in r (and no 5xx status) mark_free is called on the    *)
(* ID, challenges_passed and total_mines grow by exactly one each, the     *)
(* cached balance and trust score are those of r, and the result is a      *)
(* success flagged challenge_cooldown.  With CHALLENGE_FAILED              *)
(* challenges_failed grows by exactly one.  With CHALLENGE_USED no         *)
(* counter and nothing in the registry changes and the result is           *)
(* challenge_used.                                                         *)
(***************************************************************************)
C27_AnswerOutcomes ==
    [][(last_mine' # last_mine /\ last_mine'.at = "answer"
          /\ ~Is5xx(last_mine'.response)) =>
          LET x == last_mine'.token_id
              r == last_mine'.response
              has_earnings == r.hash \/ r.cw_earned # None
          IN  /\ has_earnings =>
                    /\ Registry(tried_tokens', free_tokens') = mark_free(Reg, x)
                    /\ stats'[1] =
                          [stats[1] EXCEPT
                              !.challenges_passed = @ + 1,
                              !.total_mines = @ + 1,
                              !.cw_balance = IF r.cw_balance = None THEN @
                                             ELSE r.cw_balance]
                    /\ trust_score'[1] = IF r.trust = None THEN trust_score[1]
                                         ELSE r.trust
                    /\ result'[1] = Result("", TRUE, TRUE, None)
              /\ (~has_earnings /\ r.error = "CHALLENGE_FAILED") =>
                    /\ stats'[1] = [stats[1] EXCEPT !.challenges_failed = @ + 1]
                    /\ UNCHANGED <<tried_tokens, free_tokens>>
              /\ (~has_earnings /\ r.error = "CHALLENGE_USED") =>
                    /\ UNCHANGED <<stats, tried_tokens, free_tokens, trust_score>>
                    /\ result'[1] = Failure("challenge_used")
      ]_vars

(***************************************************************************)
(* C28: on a contested ID space every token_taken result (a step that      *)
(* counts one more failure) puts into tried_tokens one ID that was not in  *)
(* it; the workers keep running, so the whole range is in tried_tokens in  *)
(* the end, and from then on every result of mine() is all_tokens_taken.   *)
(***************************************************************************)
C28_RangeExhausted ==
    /\ [][\A w \in farmers :
             /\ ctf'[w] = ctf[w] + 1 =>
                   \E id \in TokenRange \ tried_tokens :
                      tried_tokens' = tried_tokens \cup {id}
             /\ (TokenRange \subseteq tried_tokens /\ pc'[w] # pc[w]
                 /\ pc'[w] # "sleep_moment") =>
                   result'[w] = Failure("all_tokens_taken")]_vars
    /\ <>[](TokenRange \subseteq tried_tokens)
    /\ \A w \in Workers : []<>(pc[w] \notin Finished)

\* The whole range is taken and a worker was told so by mine().
C28_Witness ==
    /\ TokenRange \subseteq tried_tokens
    /\ result[1] = Failure("all_tokens_taken")
    /\ pc[1] = "sleep_delay"
    /\ ctf[1] + ctf[2] = NumTokens

(***************************************************************************)
(* C29: when get_next_token has no candidate (the whole range is taken     *)
(* and no ID is free), mine() sends no request, leaves the registry and    *)
(* the worker's stats as they are and reports all_tokens_taken, and run()  *)
(* goes into its 120-200 sleep, the sleep before the next iteration, with  *)
(* its counter and its flags unchanged.                                    *)
(***************************************************************************)
C29_NoCandidate ==
    [][(last_mine'.n # last_mine.n /\ get_next_token(Reg) = {None}) =>
          /\ last_mine'.at = "no_request"
          /\ last_mine'.token_id = None
          /\ UNCHANGED <<tried_tokens, free_tokens, ever_taken, stats, trust_score,
                         ctf, running, status>>
          /\ result'[1] = Failure("all_tokens_taken")
          /\ pc'[1] = "sleep_delay"
          /\ sleep_dur'[1] = Span(120, 200)
      ]_vars

\* mine() was called with every ID taken, after this worker had itself
\* been told "taken" once.
C29_Witness ==
    /\ last_mine.at = "no_request"
    /\ last_mine.n = 2
    /\ TokenRange \subseteq tried_tokens
    /\ result[1] = Failure("all_tokens_taken")
    /\ stats[1].tokens_taken = 1
    /\ pc[1] = "sleep_delay"

C31_TakenWhileSolving ==
    [][/\ (pc[1] = "solving" /\ chal[1].token_id \in tried_tokens)
             => ENABLED AnswerCall
       /\ (last_mine' # last_mine /\ last_mine'.at = "answer"
           /\ last_mine'.token_id \in tried_tokens
           /\ Earned(last_mine'.response) /\ ~Is5xx(last_mine'.response)) =>
             LET x == last_mine'.token_id
             IN  /\ x = chal[1].token_id
                 /\ x \in tried_tokens'
                 /\ x \notin Range(free_tokens')
                 /\ free_tokens' = free_tokens
                 /\ stats'[1].total_mines = stats[1].total_mines + 1
                 /\ stats'[1].challenges_passed = stats[1].challenges_passed + 1
                 /\ result'[1] = Result("", TRUE, TRUE, None)
      ]_vars

\* The answer for an ID another worker had marked taken was accepted: the
\* ID is taken and not free, this worker has one mine and one challenge
\* passed, and never was told "taken" itself.
C31_Witness ==
    /\ last_mine.at = "answer"
    /\ Earned(last_mine.response)
    /\ last_mine.token_id \in tried_tokens
    /\ last_mine.token_id \notin Range(free_tokens)
    /\ stats[1].total_mines = 1
    /\ stats[1].challenges_passed = 1
    /\ stats[1].tokens_taken = 0
    /\ result[1].success

(***************************************************************************)
(* C32: from the empty registry, whatever calls are made, no ID is in      *)
(* free_tokens twice, so that after mark_taken, which removes one          *)
(* occurrence, the ID is not in free_tokens at all; and a call of          *)
(* get_next_token leaves tried_tokens and free_tokens as they were.        *)
(***************************************************************************)
C32_FreeListHasNoDuplicates ==
    /\ [](\A i, j \in 1 .. Len(free_tokens) :
             free_tokens[i] = free_tokens[j] => i = j)
    /\ [][/\ last_call'.op = "mark_taken" =>
                last_call'.arg \notin Range(free_tokens')
          /\ last_call'.op = "get_next_token" =>
                UNCHANGED <<tried_tokens, free_tokens>>]_vars

\* mark_taken was called on an ID that was in free_tokens; it is taken
\* now and gone from the list, where another ID is still free.
C32_Witness ==
    /\ last_call.op = "mark_taken"
    /\ last_call.was_free
    /\ last_call.arg \in tried_tokens
    /\ last_call.arg \notin Range(free_tokens)
    /\ Len(free_tokens) = 1

====
